---- MODULE Spec2Model ----
(***************************************************************************)
(* Model of the tool-calling scripts of free-llm-usage:                    *)
(*   src/src/langchain/1_multi_tool_usage.ts          ("multi_tool")       *)
(*   src/src/langchain/2_agent_toolSetup_userContext.ts ("user_context")   *)
(*   src/unnamed/part_000                              ("structured")      *)
(* Each script declares tools, hands them to createReactAgent and invokes  *)
(* the agent once.  The agent is the framework's reason-act graph: call    *)
(* the model, run the tools it asks for, feed the results back, until the  *)
(* model answers without tool calls (1_multi_tool_usage.ts:146-151).       *)
(* The language model is an oracle: its answer is a nondeterministic       *)
(* choice.  JS objects are sets of <<key, value>> pairs; a string built by *)
(* a template literal is the sequence of its pieces.                       *)
(***************************************************************************)
EXTENDS Integers, Sequences, FiniteSets, TLC

VARIABLES
    program,        \* which script runs
    tools,          \* the tools array given to createReactAgent
    context,        \* config.context given to agent.invoke
    messages,       \* the agent's message sequence (result.messages)
    pc,             \* "setup" | "agent" | "oracle" | "tools" | "done" | "error"
                    \* | "format" | "end"
    calls,          \* tool calls of the round being executed
    running,        \* indices of calls whose runTool promise is pending
    outputs,        \* index -> tool message, for the settled calls
    oracleCalls,    \* number of oracle round-trips started
    oracleInFlight, \* number of oracle requests awaiting their response
    invocations,    \* history: handler runs, in the order they ran
    raised,         \* message of the error thrown out of agent.invoke, or NoError
    finalText,      \* the answer the script reads off result.messages
    formatterCalls, \* number of formatterLLM.invoke calls started
    structuredResponse  \* the record formatterLLM.invoke resolved to

vars == << program, tools, context, messages, pc, calls, running, outputs,
           oracleCalls, oracleInFlight, invocations, raised,
           finalText, formatterCalls, structuredResponse >>

\* ---------------------------------------------------------------- bounds
\* Oracle round-trips explored per request.  The scripts pass no round
\* limit to createReactAgent or agent.invoke; this only bounds the search.
MaxRounds == 3
\* Length of the tools array explored by the registry specification.
MaxTools == 3

\* ---------------------------------------------------------------- JS values
Undefined == "undefined"

Get(obj, key) ==
    IF \E p \in obj : p[1] = key
    THEN (CHOOSE p \in obj : p[1] = key)[2]
    ELSE Undefined

Keys(obj) == { p[1] : p \in obj }

\* JS truthiness of a string-or-undefined value: !userId
Falsy(v) == v = Undefined \/ v = ""

NoId == << 0, 0 >>
NoError == << >>
NoText == << >>

\* ---------------------------------------------------------------- handlers
\* A handler run yields either a returned string or a thrown Error.
Returned(content) == [ threw |-> FALSE, content |-> content ]
Thrown(message)   == [ threw |-> TRUE,  content |-> << message >> ]

\* 2_agent_toolSetup_userContext.ts: reads config.context.user_id unguarded.
getUserLocationSwapped(input, ctx) ==
    LET userId == Get(ctx, "user_id")
    IN  Returned(<< IF userId = "1" THEN "San Francisco" ELSE "New York" >>)

getUserLocation(input, ctx) ==
    LET userId == Get(ctx, "user_id")
    IN  Returned(<< IF userId = "1" THEN "New York" ELSE "San Francisco" >>)

\* part_000: throws when user_id is missing.
getUserLocation0(input, ctx) ==
    LET userId == Get(ctx, "user_id")
    IN  IF Falsy(userId)
        THEN Thrown("user_id missing from execution context")
        ELSE Returned(<< IF userId = "1" THEN "New York" ELSE "San Francisco" >>)

getWeather(input, ctx) ==
    Returned(<< "It's always sunny in ", Get(input, "city") >>)

getTime(input, ctx) ==
    Returned(<< "The current time in ", Get(input, "city"), " is 3:00 PM" >>)

CallFunc(func, input, ctx) ==
    CASE func = "getUserLocation"  -> getUserLocation(input, ctx)
      [] func = "getUserLocation0" -> getUserLocation0(input, ctx)
      [] func = "getWeather"       -> getWeather(input, ctx)
      [] func = "getTime"          -> getTime(input, ctx)

\* ---------------------------------------------------------------- declarations
\* tool(func, {name, description, schema}); schema = the required keys of
\* the z.object.
Tool(func, name, description, schema) ==
    [ func |-> func, name |-> name, description |-> description, schema |-> schema ]

multi_getWeather ==
    Tool("getWeather", "get_weather",
         "You MUST use this tool to answer any weather-related question.", {"city"})
multi_getTime ==
    Tool("getTime", "get_time", "Get time for a given city.", {"city"})
ctx_getUserLocation ==
    Tool("getUserLocation", "get_user_location",
         "Retrieves the user's current location based on their user ID.", {})
ctx_getWeather ==
    Tool("getWeather", "get_weather", "Retrieves the weather for a given city.", {"city"})
fmt_getUserLocation ==
    Tool("getUserLocation0", "get_user_location",
         "Retrieves the user's current location based on their user ID.", {})
fmt_getWeather ==
    Tool("getWeather", "get_weather", "Retrieves the weather for a given city.", {"city"})

Declarations ==
    { multi_getWeather, multi_getTime, ctx_getUserLocation, ctx_getWeather,
      fmt_getUserLocation, fmt_getWeather }

Programs == { "multi_tool", "user_context", "structured" }

\* tools: [...] of each script's createReactAgent call.
AgentTools(p) ==
    CASE p = "multi_tool"   -> << multi_getWeather, multi_getTime >>
      [] p = "user_context" -> << ctx_getUserLocation, ctx_getWeather >>
      [] p = "structured"   -> << fmt_getUserLocation, fmt_getWeather >>

\* ---------------------------------------------------------------- messages
Msg(role, content, name, tool_calls, id, status) ==
    [ role |-> role, content |-> content, name |-> name,
      tool_calls |-> tool_calls, tool_call_id |-> id, status |-> status ]

SystemMessage(text) == Msg("system", << text >>, "", << >>, NoId, "")
HumanMessage(text)  == Msg("user", << text >>, "", << >>, NoId, "")
AIMessage(content, tool_calls) == Msg("assistant", content, "", tool_calls, NoId, "")
ToolMessage(content, name, id, status) == Msg("tool", content, name, << >>, id, status)

\* part_000:14-30
systemPrompt == "You are an expert weather forecaster who also speaks in a humorous manner."

\* The execution contexts a host may pass; the scripts pass {user_id: "1"}.
Contexts == { { << "user_id", "1" >> }, { << "user_id", "2" >> }, { } }

\* The input of agent.invoke: messages, and the config given beside them.
InvokeInputs ==
    { [ program |-> "multi_tool",
        messages |-> << HumanMessage("What is the time in India?"),
                        HumanMessage("What is the weather in US?") >>,
        context |-> { } ] }
    \cup
    { [ program |-> "user_context",
        messages |-> << HumanMessage("What is the weather outside?") >>,
        context |-> c ] : c \in Contexts }
    \cup
    { [ program |-> "user_context",
        messages |-> << HumanMessage("What is the weather in Paris?") >>,
        context |-> { << "user_id", "1" >> } ] }
    \cup
    { [ program |-> "structured",
        messages |-> << SystemMessage(systemPrompt),
                        HumanMessage("What is the weather outside?") >>,
        context |-> c ] : c \in Contexts }

\* The message channel the graph starts from: the input's messages only; the
\* config travels beside it.
InvokeMessagesLeaky(input) ==
    input.messages \o << HumanMessage(Get(input.context, "user_id")) >>

InvokeMessages(input) == input.messages

\* ---------------------------------------------------------------- the oracle
ToolCall(name, args) == [ name |-> name, args |-> args, id |-> NoId ]

Requests ==
    { ToolCall("get_user_location", { }),
      ToolCall("get_weather", { << "city", "New York" >> }),
      ToolCall("get_weather", { << "city", "Paris" >> }),
      ToolCall("get_weather", { }),
      ToolCall("get_time", { << "city", "India" >> }) }

ParallelRequests ==
    { ToolCall("get_weather", { << "city", "Paris" >> }),
      ToolCall("get_time", { << "city", "India" >> }) }

\* What the oracle may ask for in one response: one call, or two at once.
OracleToolCalls ==
    { << r >> : r \in Requests } \cup (ParallelRequests \X ParallelRequests)

FinalAnswer == << "final answer" >>

\* What a request to the model can fail with instead of answering: the
\* client's timeout (set by part_000 only) or a failed connection.  The
\* client's own handling of the transport lies inside one oracle call.
OracleTimeout == << "TimeoutError", "Request timed out." >>
OracleTransportError == << "Error", "Connection error." >>
OracleErrors == { OracleTimeout, OracleTransportError }

ClientErrors(p) ==
    IF p = "structured" THEN { OracleTimeout, OracleTransportError }
    ELSE { OracleTransportError }

\* The provider numbers the calls of a response.
WithIds(cs, round) ==
    [ i \in 1..Len(cs) |-> [ cs[i] EXCEPT !.id = << round, i >> ] ]

\* ---------------------------------------------------------------- the tool node
NotFound == Tool("", "", "", { })

\* tools.find(t => t.name === call.name) over the array given at creation.
ResolveFirstTool(registry, name) ==
    IF Len(registry) > 0 THEN registry[1] ELSE NotFound

ResolveAny(registry, name) ==
    IF \E i \in 1..Len(registry) : registry[i].name = name
    THEN registry[CHOOSE i \in 1..Len(registry) :
                    /\ registry[i].name = name
                    /\ \A j \in 1..(i - 1) : registry[j].name # name]
    ELSE IF Len(registry) > 0 THEN registry[Len(registry)] ELSE NotFound

Resolve(registry, name) ==
    IF \E i \in 1..Len(registry) : registry[i].name = name
    THEN registry[CHOOSE i \in 1..Len(registry) :
                    /\ registry[i].name = name
                    /\ \A j \in 1..(i - 1) : registry[j].name # name]
    ELSE NotFound

\* schema.parse(args): every key of the z.object is a required string.
ValidateNothing(schema, args) == TRUE

Validate(schema, args) == \A k \in schema : Get(args, k) # Undefined

\* zod drops the keys the schema does not declare.
Parse(schema, args) == { p \in args : p[1] \in schema }

\* The framework's default: a failure inside a tool call is turned into a
\* tool message; no script switches it off.
HandleToolErrorsOff == FALSE

HandleToolErrors == TRUE

ErrorContent(message) == << "Error: " >> \o message \o << "\n Please fix your mistakes." >>

ToolNotFound(name) == << "Tool ", name, " not found." >>
SchemaMismatch == << "Received tool input did not match expected schema" >>

\* One tool call, start to finish: resolve, validate, run the handler.
\* invoked: whether the handler ran; failed: whether anything threw.
RunToolOutcome(call, registry, ctx) ==
    LET t == Resolve(registry, call.name)
    IN  IF t = NotFound
        THEN [ invoked |-> FALSE, failed |-> TRUE, tool |-> t,
               content |-> ToolNotFound(call.name) ]
        ELSE IF ~Validate(t.schema, call.args)
        THEN [ invoked |-> FALSE, failed |-> TRUE, tool |-> t,
               content |-> SchemaMismatch ]
        ELSE LET r == CallFunc(t.func, Parse(t.schema, call.args), ctx)
             IN  [ invoked |-> TRUE, failed |-> r.threw, tool |-> t,
                   content |-> r.content ]

\* tool_call_id: call.id, the id of the call the result answers.
OutcomeMessageFirstId(call, o) ==
    IF o.failed
    THEN ToolMessage(ErrorContent(o.content), call.name, << call.id[1], 1 >>, "error")
    ELSE ToolMessage(o.content, o.tool.name, << call.id[1], 1 >>, "success")

OutcomeMessage(call, o) ==
    IF o.failed
    THEN ToolMessage(ErrorContent(o.content), call.name, call.id, "error")
    ELSE ToolMessage(o.content, o.tool.name, call.id, "success")

Invocation(call, o, ctx) ==
    [ id |-> call.id, name |-> o.tool.name, func |-> o.tool.func,
      input |-> Parse(o.tool.schema, call.args), context |-> ctx,
      threw |-> o.failed, content |-> o.content ]

\* Promise.all over the calls: the tools node returns when none is pending.
AnyComplete == running # 1..Len(calls)

AllComplete == running = { }

\* ---------------------------------------------------------------- the agent
Init ==
    \E input \in InvokeInputs :
        /\ program = input.program
        /\ tools = AgentTools(input.program)
        /\ context = input.context
        /\ messages = InvokeMessages(input)
        /\ pc = "agent"
        /\ calls = << >>
        /\ running = { }
        /\ outputs = << >>
        /\ oracleCalls = 0
        /\ oracleInFlight = 0
        /\ invocations = << >>
        /\ raised = NoError
        /\ finalText = NoText
        /\ formatterCalls = 0
        /\ structuredResponse = { }

\* agent node: send the messages and the tool declarations to the model.
CallModel ==
    /\ pc = "agent"
    /\ oracleCalls < MaxRounds
    /\ pc' = "oracle"
    /\ oracleCalls' = oracleCalls + 1
    /\ oracleInFlight' = oracleInFlight + 1
    /\ UNCHANGED << finalText, formatterCalls, structuredResponse,
                    program, tools, context, messages, calls, running, outputs,
                    invocations, raised >>

\* The model answers in text: no tool calls, the graph ends.
OracleFinal ==
    /\ pc = "oracle"
    /\ oracleInFlight' = oracleInFlight - 1
    /\ messages' = Append(messages, AIMessage(FinalAnswer, << >>))
    /\ pc' = "done"
    /\ UNCHANGED << finalText, formatterCalls, structuredResponse,
                    program, tools, context, calls, running, outputs,
                    oracleCalls, invocations, raised >>

\* Where the request goes when the model call throws: nothing catches it,
\* the awaited agent.invoke rejects.
AfterOracleErrorRetry == "agent"

AfterOracleError == "error"

\* The model call throws.
OracleFails ==
    /\ pc = "oracle"
    /\ \E err \in ClientErrors(program) : raised' = err
    /\ oracleInFlight' = oracleInFlight - 1
    /\ pc' = AfterOracleError
    /\ UNCHANGED << finalText, formatterCalls, structuredResponse,
                    program, tools, context, messages, calls, running, outputs,
                    oracleCalls, invocations >>

\* The model asks for tools: the tools node starts one runTool per call.
OracleRequestsTools ==
    /\ pc = "oracle"
    /\ \E cs \in OracleToolCalls :
        LET numbered == WithIds(cs, oracleCalls)
        IN  /\ messages' = Append(messages, AIMessage(<< >>, numbered))
            /\ calls' = numbered
            /\ running' = 1..Len(numbered)
    /\ oracleInFlight' = oracleInFlight - 1
    /\ outputs' = << >>
    /\ pc' = "tools"
    /\ UNCHANGED << finalText, formatterCalls, structuredResponse,
                    program, tools, context, oracleCalls, invocations, raised >>

\* One pending call settles.
RunTool ==
    \E i \in running :
        LET o == RunToolOutcome(calls[i], tools, context)
        IN  /\ invocations' = IF o.invoked
                              THEN Append(invocations, Invocation(calls[i], o, context))
                              ELSE invocations
            /\ running' = running \ { i }
            /\ IF o.failed /\ ~HandleToolErrors
               THEN /\ raised' = o.content
                    /\ pc' = "error"
                    /\ outputs' = outputs
               ELSE /\ outputs' = [ j \in DOMAIN outputs \cup { i } |->
                                      IF j = i THEN OutcomeMessage(calls[i], o)
                                      ELSE outputs[j] ]
                    /\ UNCHANGED << raised, pc >>
            /\ UNCHANGED << finalText, formatterCalls, structuredResponse,
                    program, tools, context, messages, calls,
                            oracleCalls, oracleInFlight >>

\* The tools node returns its messages in call order; back to the agent node.
ToolsDone ==
    /\ pc = "tools"
    /\ AllComplete
    /\ messages' = messages \o [ k \in 1..Cardinality(DOMAIN outputs) |->
                       outputs[CHOOSE i \in DOMAIN outputs :
                                  Cardinality({ j \in DOMAIN outputs : j < i }) = k - 1] ]
    /\ pc' = "agent"
    /\ UNCHANGED << finalText, formatterCalls, structuredResponse,
                    program, tools, context, calls, running, outputs, oracleCalls,
                    oracleInFlight, invocations, raised >>

\* ---------------------------------------------------------------- after the loop
\* result.messages[result.messages.length - 1].content
FinalTextFirst(msgs) == msgs[1].content

FinalTextOf(msgs) == msgs[Len(msgs)].content

\* 1_multi_tool_usage.ts, 2_agent_toolSetup_userContext.ts: print the last
\* message's content; the script ends.
PrintFinal ==
    /\ pc = "done"
    /\ program # "structured"
    /\ finalText' = FinalTextOf(messages)
    /\ pc' = "end"
    /\ UNCHANGED << program, tools, context, messages, calls, running, outputs,
                    oracleCalls, oracleInFlight, invocations, raised,
                    formatterCalls, structuredResponse >>

\* responseFormat = z.object({humour_response, weatherCondition}): the keys
\* of the schema, each a required string.
responseFormat == { "humour_response", "weatherCondition" }

\* What the model may hand back to the formatter: the two fields, the two
\* fields and one more, one field only, nothing usable.
FormatterOutputs ==
    { { << "humour_response", "joke" >>, << "weatherCondition", "Sunny" >> },
      { << "humour_response", "joke" >>, << "weatherCondition", "Sunny" >>,
        << "city", "New York" >> },
      { << "weatherCondition", "Sunny" >> },
      { } }

OutputParserException == << "OutputParserException", "Failed to parse" >>

\* part_000: read the final text, wrap the same llm with the schema and ask
\* it to convert the text.
FormatFinal ==
    /\ pc = "done"
    /\ program = "structured"
    /\ finalText' = FinalTextOf(messages)
    /\ formatterCalls' = formatterCalls + 1
    /\ oracleInFlight' = oracleInFlight + 1
    /\ pc' = "format"
    /\ UNCHANGED << program, tools, context, messages, calls, running, outputs,
                    oracleCalls, invocations, raised, structuredResponse >>

\* The formatter's answer is parsed against responseFormat: the record, or
\* the parser's exception, thrown out of the awaited invoke.
FormatterReturns ==
    /\ pc = "format"
    /\ oracleInFlight' = oracleInFlight - 1
    /\ \E raw \in FormatterOutputs :
        IF Validate(responseFormat, raw)
        THEN /\ structuredResponse' = Parse(responseFormat, raw)
             /\ pc' = "end"
             /\ raised' = raised
        ELSE /\ raised' = OutputParserException
             /\ pc' = "error"
             /\ structuredResponse' = structuredResponse
    /\ UNCHANGED << program, tools, context, messages, calls, running, outputs,
                    oracleCalls, invocations, finalText, formatterCalls >>

\* The formatter's model call throws.
FormatterFails ==
    /\ pc = "format"
    /\ oracleInFlight' = oracleInFlight - 1
    /\ \E err \in ClientErrors(program) : raised' = err
    /\ pc' = "error"
    /\ UNCHANGED << program, tools, context, messages, calls, running, outputs,
                    oracleCalls, invocations, finalText, formatterCalls,
                    structuredResponse >>

Next ==
    \/ CallModel
    \/ OracleFinal
    \/ OracleFails
    \/ OracleRequestsTools
    \/ RunTool
    \/ ToolsDone
    \/ PrintFinal
    \/ FormatFinal
    \/ FormatterReturns
    \/ FormatterFails

Spec == Init /\ [][Next]_vars

\* ---------------------------------------------------------------- the registry
\* The tools array, built one element at a time; nothing else has run yet.
InitRegistry ==
    /\ program \in Programs
    /\ tools = << >>
    /\ context = { }
    /\ messages = << >>
    /\ pc = "setup"
    /\ calls = << >>
    /\ running = { }
    /\ outputs = << >>
    /\ oracleCalls = 0
    /\ oracleInFlight = 0
    /\ invocations = << >>
    /\ raised = NoError
    /\ finalText = NoText
    /\ formatterCalls = 0
    /\ structuredResponse = { }

\* Listing one more declaration in tools: [...]: the array takes any element.
Register ==
    /\ pc = "setup"
    /\ Len(tools) < MaxTools
    /\ \E d \in Declarations : tools' = Append(tools, d)
    /\ UNCHANGED << finalText, formatterCalls, structuredResponse,
                    program, context, messages, pc, calls, running, outputs,
                    oracleCalls, oracleInFlight, invocations, raised >>

NextRegistry == Register

SpecRegistry == InitRegistry /\ [][NextRegistry]_vars

\* ================================================================ properties
Range(f) == { f[i] : i \in DOMAIN f }
Last(seq) == seq[Len(seq)]

RegisteredNames == { tools[i].name : i \in 1..Len(tools) }
DeclaredNames == { d.name : d \in Declarations }

\* The oracle's answers so far, oldest first.
IsAssistant(m) == m.role = "assistant"
OracleLog == SelectSeq(messages, IsAssistant)
RequestsOf(log) == [ n \in 1..Len(log) |->
                        [ i \in 1..Len(log[n].tool_calls) |->
                            [ name |-> log[n].tool_calls[i].name,
                              args |-> log[n].tool_calls[i].args ] ] ]

\* Every tool call the oracle has made, with the place of its message.
CallSites == UNION { { << j, i >> : i \in 1..Len(messages[j].tool_calls) } :
                       j \in DOMAIN messages }
CallAt(site) == messages[site[1]].tool_calls[site[2]]

\* The round of a call site is over: its results are in the sequence.
Answered(site) == site[1] < Len(messages)
ResultAt(site) == messages[site[1] + site[2]]
ToolResultsFor(id) == { m \in DOMAIN messages :
                          messages[m].role = "tool" /\ messages[m].tool_call_id = id }
HandlerRan(id) == \E n \in DOMAIN invocations : invocations[n].id = id

\* An error tool-result for `call` carrying `content`.
IsErrorResult(m, call, content) ==
    /\ m.role = "tool"
    /\ m.status = "error"
    /\ m.tool_call_id = call.id
    /\ m.name = call.name
    /\ m.content = ErrorContent(content)

\* agent.invoke has resolved: the loop ended with a final answer.
LoopTerminated ==
    \/ pc \in { "done", "format", "end" }
    \/ pc = "error" /\ formatterCalls > 0

\* The request ended in an error of the model call, not of a tool.
NextRoundFailed == pc = "error" /\ raised \in OracleErrors
\* An error of a tool call was thrown to the caller.
RaisedByTool ==
    raised # NoError /\ raised \notin OracleErrors /\ raised # OutputParserException

\* The result of `call` is, or is about to be, exactly one error message with
\* `content`, and the loop goes on: while the round runs the call is pending
\* or settled with that message; afterwards the message sits at the call's
\* place behind the assistant message and the next round is due or running.
RecoveredAs(site, content) ==
    LET call == CallAt(site)
    IN  IF ~Answered(site)
        THEN /\ pc = "tools"
             /\ \/ site[2] \in running
                \/ /\ site[2] \in DOMAIN outputs
                   /\ IsErrorResult(outputs[site[2]], call, content)
        ELSE /\ site[1] + Len(messages[site[1]].tool_calls) <= Len(messages)
             /\ IsErrorResult(ResultAt(site), call, content)
             /\ Cardinality(ToolResultsFor(call.id)) = 1
             /\ (Len(messages) = site[1] + Len(messages[site[1]].tool_calls)
                    => pc \in { "agent", "oracle" } \/ NextRoundFailed)

\* ---------------------------------------------------------------- C1
OnlyToolRounds == \A n \in 1..Len(OracleLog) : OracleLog[n].tool_calls # << >>
ToolLoopExceeded == << "ToolLoopExceeded" >>

\* C1: for every round limit N >= 1, when the oracle only ever asks for
\* tools, the loop makes no (N+1)-th oracle call and, once round N has run,
\* has failed with ToolLoopExceeded.
C1_RoundBudget ==
    \A N \in 1..MaxRounds :
        OnlyToolRounds =>
            /\ oracleCalls <= N
            /\ (raised = ToolLoopExceeded => oracleCalls = N)
            /\ (oracleCalls = N /\ pc = "agent" => raised = ToolLoopExceeded)

\* ---------------------------------------------------------------- C2
IsUnknown(call) == call.name \notin RegisteredNames

\* C2: a request for a tool that is not in the registry gets exactly one
\* "not found" error tool-result, runs no handler, is followed by the next
\* round, and never surfaces as an error thrown to the caller.
C2_UnknownToolRecovered ==
    \A site \in CallSites :
        IsUnknown(CallAt(site)) =>
            /\ ~HandlerRan(CallAt(site).id)
            /\ raised # ToolNotFound(CallAt(site).name)
            /\ ~RaisedByTool
            /\ RecoveredAs(site, ToolNotFound(CallAt(site).name))

C2_Witness ==
    /\ pc = "oracle"
    /\ oracleCalls = 2
    /\ \E site \in CallSites : IsUnknown(CallAt(site)) /\ Answered(site)

\* ---------------------------------------------------------------- C3
MissingRequired(call) ==
    \E i \in 1..Len(tools) :
        /\ tools[i].name = call.name
        /\ \E k \in tools[i].schema : k \notin Keys(call.args)

\* C3: a request for a declared tool whose arguments lack a required field
\* does not run the handler, gets a schema-mismatch error tool-result, and
\* is followed by the next round.
C3_InvalidArgumentsRecovered ==
    \A site \in CallSites :
        MissingRequired(CallAt(site)) =>
            /\ ~HandlerRan(CallAt(site).id)
            /\ ~RaisedByTool
            /\ RecoveredAs(site, SchemaMismatch)

C3_Witness ==
    /\ pc = "oracle"
    /\ oracleCalls = 2
    /\ \E site \in CallSites :
        /\ CallAt(site).name = "get_weather"
        /\ MissingRequired(CallAt(site))
        /\ Answered(site)

\* ---------------------------------------------------------------- C4
ContextValues == { p[2] : p \in context }

Carries(m, v) ==
    \/ v \in Range(m.content)
    \/ \E i \in 1..Len(m.tool_calls) : \E p \in m.tool_calls[i].args : p[2] = v

ReadsUserId == "get_user_location" \in RegisteredNames
UserIdMissing == "user_id" \notin Keys(context)

\* C5: when get_user_location is registered and user_id is absent from the
\* context, no oracle call is made, no handler runs and no location is
\* produced in place of the missing one.
C5_MissingContextFailsFast ==
    (ReadsUserId /\ UserIdMissing) =>
        /\ oracleCalls = 0
        /\ \A n \in DOMAIN invocations : invocations[n].name # "get_user_location"
        /\ \A j \in DOMAIN messages :
              messages[j].role = "tool" => messages[j].content # << "San Francisco" >>

\* ---------------------------------------------------------------- C6
SiteOf(id) == CHOOSE site \in CallSites : CallAt(site).id = id

\* C6: a handler that throws yields one error tool-result carrying its
\* message, the loop goes on to the next round, and nothing is thrown to
\* the caller.
C6_HandlerFailureCaptured ==
    \A n \in DOMAIN invocations :
        invocations[n].threw =>
            /\ ~RaisedByTool
            /\ RecoveredAs(SiteOf(invocations[n].id), invocations[n].content)

C6_Witness ==
    /\ pc = "oracle"
    /\ \E n \in DOMAIN invocations :
        /\ invocations[n].threw
        /\ invocations[n].func = "getUserLocation0"
        /\ Answered(SiteOf(invocations[n].id))

\* ---------------------------------------------------------------- C7
\* C7: the registry never holds two declarations of one name (a duplicate
\* registration fails and changes nothing), every registered name resolves
\* to the declaration registered under it, and an absent name resolves to
\* nothing.
C7_Registry ==
    /\ \A i, j \in 1..Len(tools) : tools[i].name = tools[j].name => i = j
    /\ \A i \in 1..Len(tools) : Resolve(tools, tools[i].name) = tools[i]
    /\ \A name \in DeclaredNames \ RegisteredNames : Resolve(tools, name) = NotFound

\* ---------------------------------------------------------------- C8
\* C8: at most one oracle call is in flight, and none while a tool call of
\* the round before it is still pending.
C8_SequentialRounds ==
    /\ oracleInFlight <= 1
    /\ oracleInFlight = 1 <=> pc \in { "oracle", "format" }
    /\ pc = "oracle" => running = { }
    /\ running # { } => pc = "tools"

\* The second oracle call, issued after a round of two concurrent tool calls.
C8_Witness ==
    /\ pc = "oracle"
    /\ oracleCalls = 2
    /\ Len(calls) = 2
    /\ DOMAIN outputs = { 1, 2 }

\* ---------------------------------------------------------------- C9
Asked(name, args) == << [ name |-> name, args |-> args ] >>
AskLocation == Asked("get_user_location", { })
AskWeather(city) == Asked("get_weather", { << "city", city >> })

LocationScenario ==
    /\ RegisteredNames = { "get_user_location", "get_weather" }
    /\ context = { << "user_id", "1" >> }
    /\ \E j \in DOMAIN messages : messages[j] = HumanMessage("What is the weather outside?")

LocationRan(inv) ==
    /\ inv.name = "get_user_location"
    /\ inv.input = { }
    /\ ~inv.threw
    /\ inv.content = << "New York" >>

WeatherRan(inv, city) ==
    /\ inv.name = "get_weather"
    /\ inv.input = { << "city", city >> }
    /\ ~inv.threw
    /\ inv.content = << "It's always sunny in ", city >>

\* C9: with context {user_id: "1"}, the tools get_user_location and
\* get_weather, and the question "What is the weather outside?": once the
\* oracle has asked for get_user_location() and the round is over, the
\* handler has run once and its result "New York" is in the sequence; once
\* the oracle has then asked for get_weather({city: "New York"}), the
\* location handler ran before the weather handler; and once the oracle
\* has then answered in text, the loop is done with that answer last.
C9_LocationThenWeather ==
    LocationScenario =>
        LET asked == RequestsOf(OracleLog)
        IN  /\ (asked = << AskLocation >> /\ pc # "tools") =>
                /\ Len(invocations) = 1
                /\ LocationRan(invocations[1])
                /\ Last(messages).role = "tool"
                /\ Last(messages).content = << "New York" >>
            /\ (asked = << AskLocation, AskWeather("New York") >>) =>
                /\ Len(invocations) >= 1
                /\ LocationRan(invocations[1])
                /\ Len(invocations) <= 2
                /\ Len(invocations) = 2 => WeatherRan(invocations[2], "New York")
                /\ pc # "tools" => Len(invocations) = 2
            /\ (asked = << AskLocation, AskWeather("New York"), << >> >>) =>
                /\ LoopTerminated
                /\ Len(invocations) = 2
                /\ LocationRan(invocations[1])
                /\ WeatherRan(invocations[2], invocations[1].content[1])
                /\ Last(messages) = AIMessage(FinalAnswer, << >>)

C9_Witness ==
    /\ LocationScenario
    /\ RequestsOf(OracleLog) = << AskLocation, AskWeather("New York"), << >> >>
    /\ pc = "done"

\* ---------------------------------------------------------------- C10
ParisScenario ==
    /\ \E j \in DOMAIN messages : messages[j] = HumanMessage("What is the weather in Paris?")
    /\ \A site \in CallSites :
          << [ name |-> CallAt(site).name, args |-> CallAt(site).args ] >> = AskWeather("Paris")

\* C10: every handler run answers a tool call the oracle made, under the
\* name and with the arguments of that call, and at most once per call; so
\* for "What is the weather in Paris?", when the oracle asks only for
\* get_weather({city: "Paris"}), get_user_location never runs.
C10_OnlyRequestedTools ==
    /\ \A n \in DOMAIN invocations :
        /\ \E site \in CallSites :
            /\ CallAt(site).id = invocations[n].id
            /\ CallAt(site).name = invocations[n].name
            /\ invocations[n].input \subseteq CallAt(site).args
        /\ \A k \in DOMAIN invocations : invocations[k].id = invocations[n].id => k = n
    /\ ParisScenario =>
        \A n \in DOMAIN invocations : WeatherRan(invocations[n], "Paris")

C10_Witness ==
    /\ ParisScenario
    /\ pc = "done"
    /\ Len(invocations) = 1
    /\ WeatherRan(invocations[1], "Paris")

\* ---------------------------------------------------------------- C11
OracleErrorSurfaced ==
    raised \in OracleErrors =>
        /\ pc = "error"
        /\ oracleInFlight = 0
        /\ running = { }

OracleErrorFinal ==
    raised \in OracleErrors =>
        /\ raised' = raised
        /\ oracleCalls' = oracleCalls
        /\ oracleInFlight' = oracleInFlight
        /\ invocations' = invocations
        /\ messages' = messages

IsFinalMessage(m) == m.role = "assistant" /\ m.tool_calls = << >>

\* The formatter runs on a loop that ended with a final text, and leaves the
\* loop alone.
CoercionAfterLoop ==
    formatterCalls > 0 =>
        /\ program = "structured"
        /\ pc \in { "format", "end", "error" }
        /\ IsFinalMessage(Last(messages))
        /\ finalText = Last(messages).content
        /\ running = { }

\* A finished coercion holds a record of exactly the schema's fields.
CoercionRecord ==
    (formatterCalls > 0 /\ pc = "end") =>
        /\ Keys(structuredResponse) = responseFormat
        /\ raised = NoError

\* C12: the coercion starts only after the loop has ended with a final
\* text and never re-enters it; it ends in a record of the schema's fields,
\* or in the parse error, and then only once a retry has been made and has
\* failed to parse as well (two formatter calls).
C12_CoercionAfterRetry ==
    /\ CoercionAfterLoop
    /\ CoercionRecord
    /\ raised = OutputParserException => formatterCalls = 2

\* ---------------------------------------------------------------- C13
\* The steps after the loop leave the loop's state alone.
LoopStateFinal ==
    LoopTerminated =>
        /\ messages' = messages
        /\ oracleCalls' = oracleCalls
        /\ invocations' = invocations
        /\ running' = running
        /\ LoopTerminated'

\* The loop has ended exactly when the last message is an answer in text;
\* that message is the first such answer, and what the script reads as the
\* final text is its content.
FinalMessageLast ==
    /\ LoopTerminated <=> (messages # << >> /\ IsFinalMessage(Last(messages)))
    /\ LoopTerminated =>
        /\ \A j \in 1..(Len(messages) - 1) : ~IsFinalMessage(messages[j])
        /\ running = { }
        /\ pc # "done" => finalText = Last(messages).content
    /\ ~LoopTerminated => finalText = NoText

\* C13: the loop ends in the first round in which the oracle answers in
\* text: from then on no loop round-trip and no tool invocation happens,
\* the message sequence stays as it is with that answer last, and the
\* content of that answer is the value the script takes as the result.
C13_FinalAnswerEndsLoop == []FinalMessageLast /\ [][LoopStateFinal]_vars

C13_Witness ==
    /\ pc = "end"
    /\ oracleCalls = 2
    /\ Len(invocations) = 2
    /\ finalText = FinalAnswer
    /\ IsFinalMessage(Last(messages))

\* ---------------------------------------------------------------- C14
InvocationOf(id) == invocations[CHOOSE n \in DOMAIN invocations : invocations[n].id = id]

\* The tool-result at the call's place answers that call: its id and name,
\* and the content its own tool run produced.
CarriesOwnResult(site) ==
    LET call == CallAt(site)
        m == ResultAt(site)
    IN  /\ m.role = "tool"
        /\ m.tool_call_id = call.id
        /\ m.name = call.name
        /\ Cardinality(ToolResultsFor(call.id)) = 1
        /\ IF HandlerRan(call.id)
           THEN /\ InvocationOf(call.id).name = call.name
                /\ InvocationOf(call.id).input \subseteq call.args
                /\ m.content = IF InvocationOf(call.id).threw
                               THEN ErrorContent(InvocationOf(call.id).content)
                               ELSE InvocationOf(call.id).content
           ELSE m.status = "error"
        /\ (call.name = "get_weather" /\ call.args = { << "city", "Paris" >> }) =>
              m.content = << "It's always sunny in ", "Paris" >>
        /\ (call.name = "get_time" /\ "get_time" \in RegisteredNames) =>
              m.content = << "The current time in ", "India", " is 3:00 PM" >>

\* After a round of k >= 2 calls the k results follow the assistant message
\* in call order and nothing else does; no oracle call starts before that.
ParallelRoundAnswered ==
    /\ \A j \in DOMAIN messages :
        LET k == Len(messages[j].tool_calls)
        IN  (k >= 2 /\ j < Len(messages)) =>
                /\ j + k <= Len(messages)
                /\ \A i \in 1..k : CarriesOwnResult(<< j, i >>)
                /\ j + k < Len(messages) => messages[j + k + 1].role = "assistant"
    /\ pc = "oracle" => \A site \in CallSites : Answered(site)

\* The message sequence only grows at its end, and the tools node adds one
\* message per call of the round.
MessagesExtended ==
    /\ Len(messages') >= Len(messages)
    /\ SubSeq(messages', 1, Len(messages)) = messages
    /\ (pc = "tools" /\ pc' = "agent") => Len(messages') = Len(messages) + Len(calls)

\* C14: when the oracle asks for k >= 2 tools in one round, whatever the
\* order in which the calls settle, the sequence is extended by exactly k
\* tool-results, one per call and each with the result of its own call, the
\* earlier messages unchanged and in order, before the next oracle call.
C14_ParallelResultsInOrder == []ParallelRoundAnswered /\ [][MessagesExtended]_vars

\* Two different tools asked at once, both run, the second before the
\* first, and the next round has started.
C14_Witness ==
    /\ pc = "oracle"
    /\ oracleCalls = 2
    /\ Len(calls) = 2
    /\ calls[1].name # calls[2].name
    /\ Len(invocations) = 2
    /\ invocations[1].id = calls[2].id
    /\ invocations[2].id = calls[1].id

====
